---- MODULE Spec2Model ----
(***************************************************************************)
(* A model of the audio scheduling core of src/components/AudioEngine.ts:  *)
(* the AudioEngine class (lifecycle, parameter setters, the quantizer of   *)
(* triggerPad, the clip player of createClip / stopClip) together with the *)
(* parts of Tone.js it drives (the looping Transport, its one-shot         *)
(* timeline, Tone.Part schedules and the audio nodes' dispose()), and the   *)
(* ArBeatPad component of the same file as far as it drives the engine:    *)
(* its state, its effects and its pointer handlers.                        *)
(*                                                                         *)
(* Time.  Transport.seconds is modelled exactly on an integer grid: one    *)
(* unit is 15/TimeScale seconds, so that a sixteenth note lasts            *)
(* TimeScale \div bpm units, a whole number for every tempo of Bpms.  The  *)
(* musical position of the Transport is counted in ticks, TimeScale ticks  *)
(* to the sixteenth, so that t units at tempo b are t * b ticks.           *)
(* Velocities are hundredths (1.0 is 100); the velocity handed to a voice  *)
(* is in thousandths (kick 1.0 is 1000, bass 1.0 * 0.9 is 900).            *)
(***************************************************************************)
EXTENDS Integers, Sequences, FiniteSets, Bags, TLC

\* ------------------------------------------------------------ constants

GRID_RESOLUTION == 16

DEFAULT_BPM == 104

\* The tempos the model runs at: DEFAULT_BPM and the tempo of "cosmic-loop".
Bpms == {104, 112}

\* Twice the least common multiple of Bpms: every sixteenth is an even,
\* whole number of time units.
TimeScale == 2 * 13 * 7 * 16

PadIds == {"kick", "snare", "hat", "bass", "lead", "fx"}

Effects == {"filter", "reverb", "distortion", "limiter"}

\* The ten nullable node fields of the engine.
Nodes == PadIds \cup Effects

\* ------------------------------------------------------------ arithmetic

\* JavaScript's % on integers: the result has the sign of the dividend.
JsRem(a, n) == IF a >= 0 THEN a % n ELSE -((-a) % n)

\* Math.round of the quotient num/den (den > 0): halves round up.
MathRound(num, den) == (2 * num + den) \div (2 * den)

\* Tone.Time("16n").toSeconds() at tempo b, in time units.
subdivisionAt(b) == TimeScale \div b

\* Tone.Time("1m").toSeconds() at tempo b (4/4), in time units.
measureSecondsAt(b) == GRID_RESOLUTION * subdivisionAt(b)

\* Seconds to Transport ticks at tempo b.
toTicks(t, b) == t * b

\* Transport.loopEnd = "1m", in ticks.
loopEnd == GRID_RESOLUTION * TimeScale

\* ------------------------------------------------------------ bounds

\* One-shot callbacks that may be pending on the Transport at once: a second
\* trigger can follow one whose callback is still pending.
MaxOnce == 2

\* Clip schedules (Tone.Part instances) created in one run.
MaxParts == 2

\* dispose() calls counted per node instance and per Part.
MaxRelease == 2

\* init() calls that may be suspended at `await Tone.start()` at once.
MaxInitAwait == 2

\* The largest Transport.seconds the quantizer is applied to: more than
\* seventeen sixteenths at every tempo of Bpms.
MaxNow == 480

\* The longest event list of a LoopClip in the clip player's runs.
MaxEvents == 3

\* ------------------------------------------------------------ inputs

\* Pads tapped in the engine runs (playInstrument handles all six).
PadInputs == {"kick", "lead"}

\* Velocities passed to triggerPad, in hundredths.
VelocityInputs == {100}

\* Slider values passed to setFilterFrequency and setReverbWet (hundredths).
FilterInputs == {2000}

ReverbInputs == {60}

\* The LoopEvents the clip player's runs build their clips from: the three
\* of the round-trip scenario, one with a tick above 15 and one with a
\* negative tick.
EventInputs ==
  { [tick |-> 0,  padId |-> "kick",  velocity |-> 100],
    [tick |-> 4,  padId |-> "snare", velocity |-> 90],
    [tick |-> 8,  padId |-> "kick",  velocity |-> 100],
    [tick |-> 20, padId |-> "hat",   velocity |-> 50],
    [tick |-> -3, padId |-> "bass",  velocity |-> 80] }

\* Every event list of at most MaxEvents of them, repetitions included.
ClipInputs == UNION {[1..n -> EventInputs] : n \in 0..MaxEvents}

\* The first DEFAULT_CLIPS entry, "nova-drift".
NovaDrift ==
  << [tick |-> 0,  padId |-> "kick",  velocity |-> 100],
     [tick |-> 4,  padId |-> "snare", velocity |-> 90],
     [tick |-> 8,  padId |-> "kick",  velocity |-> 100],
     [tick |-> 12, padId |-> "snare", velocity |-> 80],
     [tick |-> 2,  padId |-> "hat",   velocity |-> 50],
     [tick |-> 6,  padId |-> "hat",   velocity |-> 50],
     [tick |-> 10, padId |-> "hat",   velocity |-> 50],
     [tick |-> 14, padId |-> "hat",   velocity |-> 50],
     [tick |-> 0,  padId |-> "bass",  velocity |-> 80],
     [tick |-> 8,  padId |-> "bass",  velocity |-> 75],
     [tick |-> 4,  padId |-> "lead",  velocity |-> 60],
     [tick |-> 12, padId |-> "fx",    velocity |-> 40] >>

\* The second DEFAULT_CLIPS entry, "cosmic-loop".
CosmicLoop ==
  << [tick |-> 0,  padId |-> "kick",  velocity |-> 100],
     [tick |-> 4,  padId |-> "kick",  velocity |-> 90],
     [tick |-> 8,  padId |-> "kick",  velocity |-> 100],
     [tick |-> 12, padId |-> "kick",  velocity |-> 92],
     [tick |-> 6,  padId |-> "snare", velocity |-> 85],
     [tick |-> 14, padId |-> "snare", velocity |-> 80],
     [tick |-> 2,  padId |-> "hat",   velocity |-> 70],
     [tick |-> 6,  padId |-> "hat",   velocity |-> 74],
     [tick |-> 10, padId |-> "hat",   velocity |-> 75],
     [tick |-> 14, padId |-> "hat",   velocity |-> 76],
     [tick |-> 0,  padId |-> "bass",  velocity |-> 85],
     [tick |-> 4,  padId |-> "bass",  velocity |-> 80],
     [tick |-> 8,  padId |-> "bass",  velocity |-> 88],
     [tick |-> 12, padId |-> "bass",  velocity |-> 80],
     [tick |-> 3,  padId |-> "fx",    velocity |-> 50],
     [tick |-> 11, padId |-> "lead",  velocity |-> 58] >>

\* DEFAULT_CLIPS: the LoopClips of the engine runs, by id (events only; the
\* engine reads no other field).
DEFAULT_CLIPS == [id \in {"nova-drift", "cosmic-loop"} |->
                    IF id = "nova-drift" THEN NovaDrift ELSE CosmicLoop]

\* ------------------------------------------------------------ state

VARIABLES
  initialized,     \* AudioEngine.initialized
  node,            \* the ten node fields: "null", "live" or "disposed"
  released,        \* dispose() calls received by the instance a field holds
  bpm,             \* AudioEngine.bpm
  initAwait,       \* init() calls suspended at `await Tone.start()`
  wasDisposed,     \* the engine has gone from Ready through dispose()
  transportState,  \* Tone.Transport.state
  transportBpm,    \* Tone.Transport.bpm.value (0: not yet set by the engine)
  position,        \* Transport ticks processed in the current loop
  seconds,         \* Tone.Transport.seconds
  ramps,           \* the pending rampTo target of each parameter (0: none)
  once,            \* the callbacks registered by Transport.scheduleOnce
  parts,           \* the Tone.Part of each ActiveClip handle, by handle
  library,         \* the source LoopClips' events, by clip id
  voiceCalls,      \* the triggerAttackRelease calls of the last Transport step
  last             \* the engine call made by the last step and its outcome

\* The state of the ArBeatPad component that owns the engine.
VARIABLES
  audioReady,      \* useState(false)
  appBpm,          \* the component's bpm state, useState(104)
  filterValue,     \* useState(18000)
  reverbValue,     \* useState(0.28), in hundredths
  activeClip,      \* the handle held in the activeClip state (0: null)
  currentEvents,   \* the id of the event list in currentEvents ("": empty)
  tasks,           \* the handler calls suspended at `await ensureAudio()`
  effectDeps       \* the dependency values each effect last ran with

vars == << initialized, node, released, bpm, initAwait, wasDisposed,
           transportState, transportBpm, position, seconds, ramps, once,
           parts, library, voiceCalls, last,
           audioReady, appBpm, filterValue, reverbValue, activeClip,
           currentEvents, tasks, effectDeps >>

appVars == << audioReady, appBpm, filterValue, reverbValue, activeClip,
              currentEvents, tasks, effectDeps >>

\* The component after its first render, before its effects have run.
AppMounted ==
  /\ audioReady = FALSE
  /\ appBpm = 104
  /\ filterValue = 18000
  /\ reverbValue = 28
  /\ activeClip = 0
  /\ currentEvents = ""
  /\ tasks = << >>
  /\ effectDeps = [activeClip |-> 0, bpm |-> -1, filterValue |-> -1,
                   reverbValue |-> -1]

engineVars == << initialized, node, released, bpm, initAwait, wasDisposed >>

transportVars == << transportState, transportBpm, position, seconds >>

\* The outcome of a step that is no engine call.
NoCall == [op |-> "none", error |-> "", now |-> 0, subdivision |-> 0,
           tick |-> 0, scheduledAt |-> 0, handle |-> 0]

\* The outcome of the engine call op that returned normally.
Returned(op) == [NoCall EXCEPT !.op = op]

\* The outcome of the engine call op that threw.
Thrown(op, error) == [NoCall EXCEPT !.op = op, !.error = error]

NoRamps == [bpm |-> 0, frequency |-> 0, wet |-> 0]

\* The state after `new AudioEngine()`, with the LoopClips lib at hand.
EngineInit(lib) ==
  /\ initialized = FALSE
  /\ node = [n \in Nodes |-> "null"]
  /\ released = [n \in Nodes |-> 0]
  /\ bpm = DEFAULT_BPM
  /\ initAwait = 0
  /\ wasDisposed = FALSE
  /\ transportState = "stopped"
  /\ transportBpm = 0
  /\ position = 0
  /\ seconds = 0
  /\ ramps = NoRamps
  /\ once = EmptyBag
  /\ parts = << >>
  /\ library = lib
  /\ voiceCalls = {}
  /\ last = NoCall
  /\ AppMounted

Init == EngineInit(DEFAULT_CLIPS)

\* ------------------------------------------------------------ lifecycle

\* init() up to `await Tone.start()`: returns at once when initialized.
init ==
  /\ last' = Returned("init")
  /\ voiceCalls' = {}
  /\ IF initialized
       THEN UNCHANGED initAwait
       ELSE /\ initAwait < MaxInitAwait
            /\ initAwait' = initAwait + 1
  /\ UNCHANGED << initialized, node, released, bpm, wasDisposed, transportVars,
                  ramps, once, parts, library >>

\* init() after Tone.start() resolved: builds the four effects and the six
\* voices, sets the Transport up, starts it and sets initialized.
initResume ==
  /\ initAwait > 0
  /\ initAwait' = initAwait - 1
  /\ node' = [n \in Nodes |-> "live"]
  /\ released' = [n \in Nodes |-> 0]
  /\ transportBpm' = bpm
  /\ ramps' = NoRamps
  /\ transportState' = "started"
  /\ initialized' = TRUE
  /\ last' = NoCall
  /\ voiceCalls' = {}
  /\ UNCHANGED << bpm, wasDisposed, position, seconds, once, parts, library >>

\* The order in which init() assigns the node fields.
BuildOrder == << "filter", "reverb", "distortion", "limiter",
                 "kick", "snare", "hat", "bass", "lead", "fx" >>

\* The errors an init() call can end with: Tone.start() rejected, or a node
\* constructor threw.
AudioOutputUnavailable == "AudioOutputUnavailable"

NodeBuildFailed == "NodeBuildFailed"

\* init() when `await Tone.start()` rejects: the rejection is the call's
\* outcome and no statement after the await runs.
initReject ==
  /\ initAwait > 0
  /\ initAwait' = initAwait - 1
  /\ last' = Thrown("init", AudioOutputUnavailable)
  /\ voiceCalls' = {}
  /\ UNCHANGED << initialized, node, released, bpm, wasDisposed, transportVars,
                  ramps, once, parts, library >>

\* init() after Tone.start() resolved, when the constructor of the node
\* after the first `built` of BuildOrder throws: the fields assigned before
\* it keep their new nodes, and neither the Transport setup nor
\* `initialized = true` is reached.
initThrow(built) ==
  /\ initAwait > 0
  /\ initAwait' = initAwait - 1
  /\ node' = [n \in Nodes |->
                IF \E i \in 1..built : BuildOrder[i] = n THEN "live" ELSE node[n]]
  /\ released' = [n \in Nodes |->
                    IF \E i \in 1..built : BuildOrder[i] = n THEN 0 ELSE released[n]]
  /\ last' = Thrown("init", NodeBuildFailed)
  /\ voiceCalls' = {}
  /\ UNCHANGED << initialized, bpm, wasDisposed, transportVars, ramps, once,
                  parts, library >>

\* dispose(): calls dispose() on every node field that is not null, clears
\* initialized; the fields keep their (disposed) nodes.
dispose ==
  /\ \A n \in Nodes : released[n] < MaxRelease
  /\ node' = [n \in Nodes |-> IF node[n] = "null" THEN "null" ELSE "disposed"]
  /\ released' = [n \in Nodes |->
                    IF node[n] = "null" THEN released[n] ELSE released[n] + 1]
  /\ initialized' = FALSE
  /\ wasDisposed' = (wasDisposed \/ initialized)
  /\ last' = Returned("dispose")
  /\ voiceCalls' = {}
  /\ UNCHANGED << bpm, initAwait, transportVars, ramps, once, parts, library >>

\* ensureReady() without its check: it never throws.
ensureReadyUnchecked == TRUE

\* ensureReady(): TRUE when it returns, FALSE when it throws.
ensureReady == initialized

\* The error ensureReady() throws, "AudioEngine not initialised".
EngineNotReady == "EngineNotReady"

\* An engine call that ensureReady() aborted: nothing but its outcome changes.
notReady(op) ==
  /\ last' = Thrown(op, EngineNotReady)
  /\ voiceCalls' = {}
  /\ UNCHANGED << engineVars, transportVars, ramps, once, parts, library >>

\* ------------------------------------------------------------ setters

setBpm(nextBpm) ==
  IF ~ensureReady THEN notReady("setBpm")
  ELSE /\ bpm' = nextBpm
       /\ ramps' = [ramps EXCEPT !.bpm = nextBpm]
       /\ last' = Returned("setBpm")
       /\ voiceCalls' = {}
       /\ UNCHANGED << initialized, node, released, initAwait, wasDisposed,
                       transportVars, once, parts, library >>

setFilterFrequency(value) ==
  IF ~ensureReady THEN notReady("setFilterFrequency")
  ELSE /\ ramps' = IF node["filter"] = "null" THEN ramps
                   ELSE [ramps EXCEPT !.frequency = value]
       /\ last' = Returned("setFilterFrequency")
       /\ voiceCalls' = {}
       /\ UNCHANGED << engineVars, transportVars, once, parts, library >>

setReverbWet(value) ==
  IF ~ensureReady THEN notReady("setReverbWet")
  ELSE /\ ramps' = IF node["reverb"] = "null" THEN ramps
                   ELSE [ramps EXCEPT !.wet = value]
       /\ last' = Returned("setReverbWet")
       /\ voiceCalls' = {}
       /\ UNCHANGED << engineVars, transportVars, once, parts, library >>

\* A rampTo reaches its target: the tempo ramp sets Transport.bpm.value.
rampEnd(param) ==
  /\ ramps[param] # 0
  /\ ramps' = [ramps EXCEPT ![param] = 0]
  /\ transportBpm' = IF param = "bpm" THEN ramps.bpm ELSE transportBpm
  /\ last' = NoCall
  /\ voiceCalls' = {}
  /\ UNCHANGED << engineVars, transportState, position, seconds, once, parts,
                  library >>

\* ------------------------------------------------------------ quantizer

\* nextTickSeconds rounding down: the last boundary at or before now.
nextTickSecondsFloor(now, subdivision) == now - JsRem(now, subdivision)

\* nextTickSeconds without the boundary test: always the boundary after now.
nextTickSecondsPush(now, subdivision) ==
  now + (subdivision - JsRem(now, subdivision))

\* triggerPad's nextTickSeconds: now itself on a subdivision boundary, the
\* next boundary otherwise.
nextTickSeconds(now, subdivision) ==
  IF JsRem(now, subdivision) = 0
    THEN now
    ELSE now + (subdivision - JsRem(now, subdivision))

\* tick without the wrap to the grid: the count of subdivisions itself.
tickOfUnwrapped(next, subdivision) == MathRound(next, subdivision)

\* triggerPad's tick: Math.round(nextTickSeconds / subdivision) % 16.
tickOf(next, subdivision) ==
  JsRem(MathRound(next, subdivision), GRID_RESOLUTION)

\* triggerPad(padId, velocity): quantizes Transport.seconds, registers the
\* one-shot callback at the quantized time and returns {tick, scheduledAt}.
triggerPad(padId, velocity) ==
  IF ~ensureReady THEN notReady("triggerPad")
  ELSE LET subdivision == subdivisionAt(transportBpm)
           now == seconds
           next == nextTickSeconds(now, subdivision)
           cb == [at |-> toTicks(next, transportBpm), padId |-> padId,
                  velocity |-> velocity]
       IN /\ BagCardinality(once) < MaxOnce
          /\ once' = once (+) SetToBag({cb})
          /\ last' = [Returned("triggerPad") EXCEPT
                        !.now = now, !.subdivision = subdivision,
                        !.tick = tickOf(next, subdivision),
                        !.scheduledAt = next]
          /\ voiceCalls' = {}
          /\ UNCHANGED << engineVars, transportVars, ramps, parts, library >>

\* ------------------------------------------------------------ clip player

\* createClip's offset of a LoopEvent in the measure, in seconds:
\* ((evt.tick % 16) / 16) * measureSeconds.
eventSeconds(tick, measureSeconds) ==
  (JsRem(tick, GRID_RESOLUTION) * measureSeconds) \div GRID_RESOLUTION

\* `scheduled` keyed by step: a later event at the time of an earlier one is
\* dropped.
scheduledOfKeyed(events, b) ==
  LET timeOf(i) == toTicks(eventSeconds(events[i].tick, measureSecondsAt(b)), b)
      kept == {i \in 1..Len(events) : \A j \in 1..(i - 1) : timeOf(j) # timeOf(i)}
      nth[n \in 1..Cardinality(kept)] ==
        CHOOSE i \in kept : Cardinality({j \in kept : j < i}) = n - 1
  IN [n \in 1..Cardinality(kept) |->
        [time |-> timeOf(nth[n]), value |-> events[nth[n]]]]

\* createClip's `scheduled`: one [time, value] entry per event of the source,
\* in the source's order; a Tone.Part keeps the time in ticks.
scheduledOf(events, b) ==
  [i \in 1..Len(events) |->
     [time |-> toTicks(eventSeconds(events[i].tick, measureSecondsAt(b)), b),
      value |-> events[i]]]

\* new Tone.Part(callback, scheduled) with loop, loopEnd "1m" and start(0).
\* fired logs the firings of the current loop period; fromStart tells that
\* the log was kept from the period's first tick on.
newPart(source, scheduled) ==
  [source |-> source, events |-> scheduled, started |-> TRUE,
   stopCalls |-> 0, disposeCalls |-> 0,
   fired |-> << >>, fromStart |-> FALSE]

\* createClip(source): a new Part for the source's events; the handle is the
\* Part's index in parts.
createClip(source) ==
  IF ~ensureReady THEN notReady("createClip")
  ELSE /\ Len(parts) < MaxParts
       /\ parts' = Append(parts,
                     newPart(source,
                             scheduledOf(library[source], transportBpm)))
       /\ last' = [Returned("createClip") EXCEPT !.handle = Len(parts) + 1]
       /\ voiceCalls' = {}
       /\ UNCHANGED << engineVars, transportVars, ramps, once, library >>

\* part.stop() followed by part.dispose() on the handle's Part.
stopped(part) ==
  [part EXCEPT !.started = FALSE,
               !.stopCalls = @ + 1, !.disposeCalls = @ + 1,
               !.fired = << >>, !.fromStart = FALSE]

\* stopClip releasing by clip id: every Part of the handle's source stops.
stopClipBySource(handle) ==
  /\ handle \in 1..Len(parts)
  /\ parts[handle].disposeCalls < MaxRelease
  /\ parts' = [h \in 1..Len(parts) |->
                 IF parts[h].source = parts[handle].source
                   THEN stopped(parts[h]) ELSE parts[h]]
  /\ last' = [Returned("stopClip") EXCEPT !.handle = handle]
  /\ voiceCalls' = {}
  /\ UNCHANGED << engineVars, transportVars, ramps, once, library >>

\* stopClip(activeClip): no ensureReady(); the handle's part is never null.
stopClip(handle) ==
  /\ handle \in 1..Len(parts)
  /\ parts[handle].disposeCalls < MaxRelease
  /\ parts' = [parts EXCEPT ![handle] = stopped(parts[handle])]
  /\ last' = [Returned("stopClip") EXCEPT !.handle = handle]
  /\ voiceCalls' = {}
  /\ UNCHANGED << engineVars, transportVars, ramps, once, library >>

\* ------------------------------------------------------------ playback

\* playInstrument's velocity factor of each pad, in tenths.
velocityFactor(padId) ==
  CASE padId = "bass" -> 9
    [] padId = "lead" -> 8
    [] padId = "fx"   -> 6
    [] OTHER          -> 10

\* playInstrument(padId, time, velocity): the triggerAttackRelease calls it
\* makes: one on the pad's voice unless the field is null.
playInstrument(padId, velocity) ==
  IF padId \in PadIds /\ node[padId] # "null"
    THEN {[padId |-> padId, velocity |-> velocity * velocityFactor(padId),
           ready |-> initialized, voice |-> node[padId]]}
    ELSE {}

\* The ticks the Transport processes in one step: half a sixteenth.
Quantum == TimeScale \div 2

\* Whether the tick at is processed in the step that starts at position.
due(at) == position <= at /\ at < position + Quantum

\* firing without the Part's stop(): a stopped Part keeps firing.
firingIgnoringStop(part) == SelectSeq(part.events, LAMBDA e : due(e.time))

\* The events of a Part that fire in this step, in the Part's order.
firing(part) ==
  IF part.started
    THEN SelectSeq(part.events, LAMBDA e : due(e.time))
    ELSE << >>

\* A firing as the Part's callback sees it.
firedAt(e) == [at |-> e.time, padId |-> e.value.padId,
               velocity |-> e.value.velocity]

\* The Part after the step: its firings logged, from the first tick of a
\* loop period to the period's end.
stepped(part) ==
  LET now == [i \in 1..Len(firing(part)) |-> firedAt(firing(part)[i])]
  IN IF position = 0
       THEN [part EXCEPT !.fired = IF part.started THEN now ELSE << >>,
                         !.fromStart = part.started]
       ELSE [part EXCEPT !.fired = IF part.fromStart THEN @ \o now ELSE @]

\* The Transport processes the next Quantum ticks: it invokes the one-shot
\* callbacks and the Part events due in them, and at loopEnd it goes back to
\* tick 0 and second 0.
transportStep ==
  /\ transportState = "started"
  /\ LET wraps == position + Quantum >= loopEnd
         dueOnce == {cb \in BagToSet(once) : due(cb.at)}
         dueParts == UNION {{firing(parts[h])[i].value :
                               i \in 1..Len(firing(parts[h]))} :
                             h \in 1..Len(parts)}
     IN /\ position' = IF wraps THEN 0 ELSE position + Quantum
        /\ seconds' = IF wraps THEN 0
                      ELSE seconds + subdivisionAt(transportBpm) \div 2
        /\ once' = [cb \in BagToSet(once) \ dueOnce |-> once[cb]]
        /\ parts' = [h \in 1..Len(parts) |-> stepped(parts[h])]
        /\ voiceCalls' = UNION {playInstrument(cb.padId, cb.velocity) : cb \in dueOnce}
                        \cup UNION {playInstrument(e.padId, e.velocity) :
                                       e \in dueParts}
  /\ last' = NoCall
  /\ UNCHANGED << engineVars, transportState, transportBpm, ramps, library >>

\* ------------------------------------------------------------ application

\* The bpm field of the DEFAULT_CLIPS entries.
clipBpm(source) == IF source = "cosmic-loop" THEN 112 ELSE DEFAULT_BPM

\* The event list a pad tap leaves in currentEvents, as a clip of its own.
LiveSketch == << [tick |-> 0, padId |-> "kick", velocity |-> 100] >>

\* The event lists the component hands to createClip, by id: the feed's
\* clips and the captured sketch.
AppClips == [id \in {"nova-drift", "cosmic-loop", "live-sketch"} |->
               IF id = "live-sketch" THEN LiveSketch ELSE DEFAULT_CLIPS[id]]

\* An effect is due when a dependency differs from the value it last ran
\* with.  An error an effect throws is the outcome of its engine call, kept
\* in `last`; the component is followed past it, still mounted.
cleanupDue == effectDeps.activeClip # activeClip

bpmDue == effectDeps.bpm # appBpm

filterDue == effectDeps.filterValue # filterValue

reverbDue == effectDeps.reverbValue # reverbValue

\* No effect is due and no resumed handler call is waiting to run: the
\* component takes the next event.
Idle ==
  /\ ~cleanupDue /\ ~bpmDue /\ ~filterDue /\ ~reverbDue
  /\ \A i \in 1..Len(tasks) : tasks[i].state = "awaiting"

\* A step of the component that calls nothing on the engine.
noEngineCall ==
  /\ last' = NoCall
  /\ voiceCalls' = {}
  /\ UNCHANGED << engineVars, transportVars, ramps, once, parts, library >>

\* part.dispose() alone, without stop().
disposedPart(part) ==
  [part EXCEPT !.started = FALSE, !.disposeCalls = @ + 1,
               !.fired = << >>, !.fromStart = FALSE]

\* The cleanup of the [activeClip, engine] effect, run when activeClip has
\* changed: the previous activeClip's part is disposed and then the engine.
effectCleanup ==
  /\ cleanupDue
  /\ LET old == effectDeps.activeClip
     IN /\ old # 0 => parts[old].disposeCalls < MaxRelease
        /\ parts' = IF old # 0
                      THEN [parts EXCEPT ![old] = disposedPart(parts[old])]
                      ELSE parts
  /\ \A n \in Nodes : released[n] < MaxRelease
  /\ node' = [n \in Nodes |-> IF node[n] = "null" THEN "null" ELSE "disposed"]
  /\ released' = [n \in Nodes |->
                    IF node[n] = "null" THEN released[n] ELSE released[n] + 1]
  /\ initialized' = FALSE
  /\ wasDisposed' = (wasDisposed \/ initialized)
  /\ last' = Returned("dispose")
  /\ voiceCalls' = {}
  /\ effectDeps' = [effectDeps EXCEPT !.activeClip = activeClip]
  /\ UNCHANGED << bpm, initAwait, transportVars, ramps, once, library,
                  audioReady, appBpm, filterValue, reverbValue, activeClip,
                  currentEvents, tasks >>

\* The [engine, bpm] effect: engine.setBpm(bpm).
effectBpm ==
  /\ ~cleanupDue /\ bpmDue
  /\ setBpm(appBpm)
  /\ effectDeps' = [effectDeps EXCEPT !.bpm = appBpm]
  /\ UNCHANGED << audioReady, appBpm, filterValue, reverbValue, activeClip,
                  currentEvents, tasks >>

\* The [engine, filterValue] effect: engine.setFilterFrequency(filterValue).
effectFilter ==
  /\ ~cleanupDue /\ ~bpmDue /\ filterDue
  /\ setFilterFrequency(filterValue)
  /\ effectDeps' = [effectDeps EXCEPT !.filterValue = filterValue]
  /\ UNCHANGED << audioReady, appBpm, filterValue, reverbValue, activeClip,
                  currentEvents, tasks >>

\* The [engine, reverbValue] effect: engine.setReverbWet(reverbValue).
effectReverb ==
  /\ ~cleanupDue /\ ~bpmDue /\ ~filterDue /\ reverbDue
  /\ setReverbWet(reverbValue)
  /\ effectDeps' = [effectDeps EXCEPT !.reverbValue = reverbValue]
  /\ UNCHANGED << audioReady, appBpm, filterValue, reverbValue, activeClip,
                  currentEvents, tasks >>

\* The three sliders' onChange.
slideBpm(value) ==
  /\ Idle /\ value # appBpm
  /\ appBpm' = value
  /\ noEngineCall
  /\ UNCHANGED << audioReady, filterValue, reverbValue, activeClip,
                  currentEvents, tasks, effectDeps >>

slideFilter(value) ==
  /\ Idle /\ value # filterValue
  /\ filterValue' = value
  /\ noEngineCall
  /\ UNCHANGED << audioReady, appBpm, reverbValue, activeClip,
                  currentEvents, tasks, effectDeps >>

slideReverb(value) ==
  /\ Idle /\ value # reverbValue
  /\ reverbValue' = value
  /\ noEngineCall
  /\ UNCHANGED << audioReady, appBpm, filterValue, activeClip,
                  currentEvents, tasks, effectDeps >>

\* `if (prev) engine.stopClip(prev); instance = engine.createClip(clip)` and
\* setActiveClip(instance): when createClip throws, activeClip is not set.
playClip(prev, source) ==
  LET afterStop == IF prev # 0
                     THEN [parts EXCEPT ![prev] = stopped(parts[prev])]
                     ELSE parts
  IN /\ prev # 0 => parts[prev].disposeCalls < MaxRelease
     /\ IF ~ensureReady
          THEN /\ parts' = afterStop
               /\ last' = Thrown("createClip", EngineNotReady)
               /\ activeClip' = activeClip
          ELSE /\ Len(parts) < MaxParts
               /\ parts' = Append(afterStop,
                             newPart(source,
                                     scheduledOf(library[source], transportBpm)))
               /\ last' = [Returned("createClip") EXCEPT !.handle = Len(parts) + 1]
               /\ activeClip' = Len(parts) + 1
     /\ voiceCalls' = {}
     /\ UNCHANGED << engineVars, transportVars, ramps, once, library >>

\* The pointer handlers, by kind, after `await ensureAudio()`; clip and events
\* are the values the handler's closure captured when the event arrived.
\* "pad": handlePadTrigger(arg).
padBody(padId) ==
  /\ triggerPad(padId, 100)
  /\ currentEvents' = IF last'.error = "" THEN "live-sketch" ELSE currentEvents
  /\ UNCHANGED << appBpm, activeClip >>

\* "centre": the centre button, Stop when a clip is active and Play of
\* DEFAULT_CLIPS[0] otherwise.
centreBody(clip) ==
  IF clip # 0
    THEN /\ stopClip(clip)
         /\ activeClip' = 0
         /\ UNCHANGED << appBpm, currentEvents >>
    ELSE /\ appBpm' = clipBpm("nova-drift")
         /\ createClip("nova-drift")
         /\ activeClip' = IF last'.error = "" THEN last'.handle ELSE activeClip
         /\ UNCHANGED currentEvents

\* "feed": a feed card's Play, whose updater stops the activeClip of the
\* current state.
feedBody(source) ==
  /\ playClip(activeClip, source)
  /\ UNCHANGED << appBpm, currentEvents >>

\* "remix": handleRemixClip(clip).
remixBody(source, clip) ==
  /\ currentEvents' = source
  /\ appBpm' = clipBpm(source)
  /\ playClip(clip, source)

\* "capture": handlePlayCapture(), the preview of currentEvents.
captureBody(clip, events) ==
  /\ playClip(clip, events)
  /\ UNCHANGED << appBpm, currentEvents >>

handlerBody(kind, arg, clip, events) ==
  /\ CASE kind = "pad"     -> padBody(arg)
       [] kind = "centre"  -> centreBody(clip)
       [] kind = "feed"    -> feedBody(arg)
       [] kind = "remix"   -> remixBody(arg, clip)
       [] kind = "capture" -> captureBody(clip, events)
  /\ UNCHANGED << filterValue, reverbValue, effectDeps >>

\* A pointer event on a pad or a clip button.  With audioReady the handler
\* runs through; otherwise ensureAudio() calls engine.init() and the handler
\* is suspended until Tone.start() has resolved.
press(kind, arg) ==
  /\ Idle
  /\ kind = "capture" => currentEvents # ""
  /\ IF audioReady
       THEN /\ handlerBody(kind, arg, activeClip, currentEvents)
            /\ UNCHANGED << audioReady, tasks >>
       ELSE /\ ~initialized
            /\ init
            /\ tasks' = Append(tasks, [kind |-> kind, arg |-> arg,
                                       clip |-> activeClip,
                                       events |-> currentEvents,
                                       state |-> "awaiting"])
            /\ UNCHANGED << audioReady, appBpm, filterValue, reverbValue,
                            activeClip, currentEvents, effectDeps >>

\* Tone.start() resolves for the oldest suspended handler call: its
\* engine.init() builds the nodes and returns.
audioUnlocked ==
  /\ Idle
  /\ tasks # << >>
  /\ initResume
  /\ tasks' = [tasks EXCEPT ![1].state = "resumed"]
  /\ UNCHANGED << audioReady, appBpm, filterValue, reverbValue, activeClip,
                  currentEvents, effectDeps >>

\* The resumed handler call: setAudioReady(true) and the rest of the handler.
resume ==
  /\ tasks # << >>
  /\ tasks[1].state = "resumed"
  /\ audioReady' = TRUE
  /\ tasks' = Tail(tasks)
  /\ handlerBody(tasks[1].kind, tasks[1].arg, tasks[1].clip, tasks[1].events)

\* ------------------------------------------------------------ runs

\* The engine under its lifecycle and every call that ensureReady() guards,
\* with the Transport at rest at tick 0.
NextCalls ==
  \/ init /\ UNCHANGED appVars
  \/ initResume /\ UNCHANGED appVars
  \/ dispose /\ UNCHANGED appVars
  \/ \E b \in Bpms : setBpm(b) /\ UNCHANGED appVars
  \/ \E v \in FilterInputs : setFilterFrequency(v) /\ UNCHANGED appVars
  \/ \E v \in ReverbInputs : setReverbWet(v) /\ UNCHANGED appVars
  \/ \E param \in {"bpm", "frequency", "wet"} : rampEnd(param) /\ UNCHANGED appVars
  \/ \E padId \in PadInputs, velocity \in VelocityInputs :
       triggerPad(padId, velocity) /\ UNCHANGED appVars
  \/ \E source \in DOMAIN library : createClip(source) /\ UNCHANGED appVars

SpecCalls == Init /\ [][NextCalls]_vars

\* The engine under its lifecycle, the scheduling calls and the running
\* Transport, at the default tempo.
NextPlayback ==
  \/ init /\ UNCHANGED appVars
  \/ initResume /\ UNCHANGED appVars
  \/ dispose /\ UNCHANGED appVars
  \/ \E padId \in PadInputs, velocity \in VelocityInputs :
       triggerPad(padId, velocity) /\ UNCHANGED appVars
  \/ \E source \in DOMAIN library : createClip(source) /\ UNCHANGED appVars
  \/ transportStep /\ UNCHANGED appVars

SpecPlayback == Init /\ [][NextPlayback]_vars


\* The state of an engine that init() has made Ready at tempo b, with the
\* Transport at second now of its loop.
EngineReady(lib, b, now) ==
  /\ initialized = TRUE
  /\ node = [n \in Nodes |-> "live"]
  /\ released = [n \in Nodes |-> 0]
  /\ bpm = b
  /\ initAwait = 0
  /\ wasDisposed = FALSE
  /\ transportState = "started"
  /\ transportBpm = b
  /\ position = toTicks(now, b) % loopEnd
  /\ seconds = now
  /\ ramps = NoRamps
  /\ once = EmptyBag
  /\ parts = << >>
  /\ library = lib
  /\ voiceCalls = {}
  /\ last = NoCall
  /\ AppMounted

\* A Ready engine under the clip player's calls, dispose() and the running
\* Transport, at the default tempo.
InitClips == EngineReady(DEFAULT_CLIPS, DEFAULT_BPM, 0)

NextClips ==
  \/ dispose /\ UNCHANGED appVars
  \/ \E source \in DOMAIN library : createClip(source) /\ UNCHANGED appVars
  \/ \E handle \in 1..MaxParts : stopClip(handle) /\ UNCHANGED appVars
  \/ transportStep /\ UNCHANGED appVars

SpecClips == InitClips /\ [][NextClips]_vars

\* The quantizer of triggerPad at every tempo of Bpms and every
\* Transport.seconds up to MaxNow.
InitQuantize ==
  \E b \in Bpms, now \in 0..MaxNow : EngineReady(DEFAULT_CLIPS, b, now)

NextQuantize ==
  \E padId \in PadInputs, velocity \in VelocityInputs :
    triggerPad(padId, velocity) /\ UNCHANGED appVars

SpecQuantize == InitQuantize /\ [][NextQuantize]_vars

\* The clip player on every clip of ClipInputs, from the start of a loop.
InitClipPeriod ==
  \E events \in ClipInputs, b \in Bpms :
    EngineReady([id \in {"live-sketch"} |-> events], b, 0)

NextClipPeriod ==
  \/ \E source \in DOMAIN library : createClip(source) /\ UNCHANGED appVars
  \/ transportStep /\ UNCHANGED appVars

SpecClipPeriod == InitClipPeriod /\ [][NextClipPeriod]_vars

\* The engine's lifecycle with an audio output that may fail to unlock and
\* node constructors that may throw.
NextInit ==
  \/ init /\ UNCHANGED appVars
  \/ initResume /\ UNCHANGED appVars
  \/ initReject /\ UNCHANGED appVars
  \/ \E built \in 0..(Len(BuildOrder) - 1) : initThrow(built) /\ UNCHANGED appVars
  \/ dispose /\ UNCHANGED appVars

SpecInit == Init /\ [][NextInit]_vars

\* Pad triggers on a Ready engine while the Transport runs through its loop,
\* at a fixed tempo of Bpms.
InitOrder == \E b \in Bpms : EngineReady(DEFAULT_CLIPS, b, 0)

NextOrder ==
  \/ \E padId \in PadInputs, velocity \in VelocityInputs :
       triggerPad(padId, velocity) /\ UNCHANGED appVars
  \/ transportStep /\ UNCHANGED appVars

SpecOrder == InitOrder /\ [][NextOrder]_vars

\* The mounted component from its first render on: its effects, its sliders,
\* its pad and clip buttons, with the audio output unlocking at any time.
InitApp == EngineInit(AppClips)

NextApp ==
  \/ effectCleanup
  \/ effectBpm
  \/ effectFilter
  \/ effectReverb
  \/ \E value \in Bpms : slideBpm(value)
  \/ \E value \in FilterInputs : slideFilter(value)
  \/ \E value \in ReverbInputs : slideReverb(value)
  \/ press("pad", "kick")
  \/ press("centre", "")
  \/ \E source \in DOMAIN DEFAULT_CLIPS : press("feed", source)
  \/ \E source \in DOMAIN DEFAULT_CLIPS : press("remix", source)
  \/ press("capture", "")
  \/ audioUnlocked
  \/ resume
  \/ rampEnd("bpm") /\ UNCHANGED appVars

SpecApp == InitApp /\ [][NextApp]_vars

\* ------------------------------------------------------------ claims

\* The calls that start with ensureReady().
GuardedOps == {"triggerPad", "createClip", "setBpm", "setFilterFrequency",
               "setReverbWet"}

\* C1: in every engine state other than Ready, each of triggerPad, createClip,
\* setBpm, setFilterFrequency and setReverbWet fails with EngineNotReady and
\* changes nothing: no callback and no clip schedule is registered, the
\* stored bpm and the Transport's tempo are unchanged and no ramp is started.
C1_NotReadyCallFails ==
  [][(~initialized /\ last'.op \in GuardedOps)
       => /\ last'.error = EngineNotReady
          /\ UNCHANGED << bpm, transportBpm, ramps, once, parts >>]_vars

\* A guarded call has just failed on a disposed engine that holds a pending
\* callback, a clip schedule and a pending tempo ramp.
C1_Witness ==
  /\ ~initialized /\ wasDisposed
  /\ last.op \in GuardedOps /\ last.error = EngineNotReady
  /\ once # EmptyBag /\ Len(parts) > 0 /\ ramps.bpm # 0

\* C2: dispose() is terminal: once the engine has been disposed, no later
\* call (init() in particular) makes it Ready again.
C2_DisposeIsTerminal == wasDisposed => ~initialized

\* C8: dispose() is idempotent: across repeated dispose() calls each of the
\* ten owned nodes is released once, not once per call.
C8_NodesReleasedOnce == \A n \in Nodes : released[n] <= 1

\* C3: after dispose(), no pending one-shot callback and no clip schedule
\* firing reaches a voice's triggerAttackRelease.
C3_NoVoiceCallAfterDispose == \A call \in voiceCalls : call.ready

\* C7: stopClip is idempotent: however often it is called on a handle, and
\* also after the engine was disposed, the handle's schedule is stopped and
\* disposed at most once.
C7_ScheduleReleasedOnce ==
  \A h \in 1..Len(parts) :
    parts[h].stopCalls <= 1 /\ parts[h].disposeCalls <= 1

\* The outcome of the last step is a triggerPad call that returned.
Triggered == last.op = "triggerPad" /\ last.error = ""

\* C4: for every transport time now >= 0 and every subdivision sub > 0,
\* triggerPad's scheduledAt is a whole multiple of sub with
\* now <= scheduledAt < now + sub.
C4_ScheduledInWindow ==
  Triggered =>
    /\ last.now >= 0 /\ last.subdivision > 0
    /\ last.now <= last.scheduledAt
    /\ last.scheduledAt < last.now + last.subdivision
    /\ last.scheduledAt % last.subdivision = 0

\* A trigger between two grid lines was pushed forward to the next one.
C4_Witness ==
  /\ Triggered
  /\ last.now % last.subdivision # 0
  /\ last.scheduledAt > last.now

\* C5: the tick triggerPad returns is an integer in 0..15 at every
\* non-negative transport time and every tempo.
C5_TickInGrid == Triggered => last.tick \in 0..(GRID_RESOLUTION - 1)

\* A trigger in the last sixteenth of a measure, quantized to the sixteenth
\* grid line: the tick wraps to 0.
C5_Witness ==
  /\ Triggered
  /\ last.now < last.scheduledAt
  /\ last.scheduledAt = GRID_RESOLUTION * last.subdivision
  /\ last.tick = 0

\* C6: a trigger at exactly s subdivisions is not pushed forward:
\* scheduledAt is now and the tick is s mod 16; at transport time 0 the
\* trigger returns tick 0 and scheduledAt 0.
C6_BoundaryNotPushed ==
  (Triggered /\ last.now % last.subdivision = 0) =>
    /\ last.scheduledAt = last.now
    /\ last.tick = (last.now \div last.subdivision) % GRID_RESOLUTION
    /\ (last.now = 0 => last.tick = 0 /\ last.scheduledAt = 0)

\* A trigger at exactly seventeen subdivisions returned tick 1.
C6_Witness ==
  /\ Triggered
  /\ last.now = (GRID_RESOLUTION + 1) * last.subdivision
  /\ last.tick = 1 /\ last.scheduledAt = last.now

\* The LoopClip of the round-trip scenario.
Scenario ==
  << [tick |-> 0, padId |-> "kick",  velocity |-> 100],
     [tick |-> 4, padId |-> "snare", velocity |-> 90],
     [tick |-> 8, padId |-> "kick",  velocity |-> 100] >>

\* The firing the claim expects of a LoopEvent: at fraction (tick mod 16)/16
\* of the measure, with the event's voice and velocity.
expectedFiring(e) ==
  [at |-> ((e.tick % GRID_RESOLUTION) * loopEnd) \div GRID_RESOLUTION,
   padId |-> e.padId, velocity |-> e.velocity]

\* The Transport is at a loop boundary and the Part's log holds the firings
\* of the whole loop period that ended there.
WholePeriod(part) == position = 0 /\ part.fromStart

\* How often x occurs in the sequence seq.
Count(x, seq) == Cardinality({i \in 1..Len(seq) : seq[i] = x})

C10_ClipsIndependent ==
  [][/\ (last'.op = "createClip" /\ last'.error = "") =>
          /\ Len(parts') = Len(parts) + 1
          /\ last'.handle = Len(parts')
          /\ parts'[last'.handle].started
          /\ \A h \in 1..Len(parts) : parts'[h] = parts[h]
          /\ library' = library
     /\ last'.op = "stopClip" =>
          /\ Len(parts') = Len(parts)
          /\ ~parts'[last'.handle].started
          /\ \A h \in 1..Len(parts) :
               h # last'.handle => parts'[h] = parts[h]
          /\ library' = library
     /\ (last'.op = "none" /\ position' # position) =>
          \A h \in 1..Len(parts) :
            \A i \in 1..Len(parts[h].events) :
              (parts[h].started /\ due(parts[h].events[i].time)) =>
                playInstrument(parts[h].events[i].value.padId,
                               parts[h].events[i].value.velocity)
                  \subseteq voiceCalls']_vars

\* Two handles of the same LoopClip, one stopped, the other still started
\* and firing in the step just taken.
C10_Witness ==
  \E h, k \in 1..Len(parts) :
    /\ h # k /\ parts[h].source = parts[k].source
    /\ ~parts[h].started /\ parts[k].started
    /\ voiceCalls # {}

\* The first tick of the Transport step that led to the current position.
stepStart == IF position = 0 THEN loopEnd - Quantum ELSE position - Quantum

\* C11: after stopClip(handle) returns, no firing of that handle's schedule
\* reaches a voice, in this or any later loop period: with no one-shot
\* pending, every voice call of a Transport step is the firing of an event
\* due in that step of a handle that was never stopped.
C11_NoFiringAfterStop ==
  [][(position' # position /\ once = EmptyBag) =>
       \A call \in voiceCalls' :
         \E h \in 1..Len(parts) :
           /\ parts[h].stopCalls = 0
           /\ \E i \in 1..Len(parts[h].events) :
                /\ due(parts[h].events[i].time)
                /\ call \in playInstrument(parts[h].events[i].value.padId,
                                           parts[h].events[i].value.velocity)]_vars

\* The Transport has just processed a step in which a stopped handle had an
\* event due that no voice received, while another handle's events fired.
C11_Witness ==
  /\ last.op = "none" /\ voiceCalls # {}
  /\ \E h \in 1..Len(parts) :
       /\ parts[h].stopCalls > 0
       /\ \E i \in 1..Len(parts[h].events) :
            /\ stepStart <= parts[h].events[i].time
            /\ parts[h].events[i].time < stepStart + Quantum
            /\ playInstrument(parts[h].events[i].value.padId,
                              parts[h].events[i].value.velocity)
                 \cap voiceCalls = {}

\* C12: init() is all-or-nothing: when unlocking the audio output or
\* building a node fails, the error reaches the caller, the engine is not
\* Ready and holds none of the voices or chain nodes built by the call.
C12_InitAllOrNothing ==
  (last.op = "init" /\ last.error # "") =>
    /\ ~initialized
    /\ \A n \in Nodes : node[n] # "live"

\* C13: createClip normalises malformed steps: for every integer tick of a
\* LoopEvent, ticks of 16 and more and negative ticks included, the event is
\* scheduled at an offset in [0, one measure) that is (tick mod 16)/16 of
\* the measure, with tick mod 16 in 0..15.
C13_StepNormalised ==
  \A h \in 1..Len(parts) :
    \A i \in 1..Len(parts[h].events) :
      LET e == parts[h].events[i]
      IN /\ 0 <= e.time /\ e.time < loopEnd
         /\ e.time = ((e.value.tick % GRID_RESOLUTION) * loopEnd) \div GRID_RESOLUTION

\* C14: while the Transport runs at a fixed tempo, the scheduled times of
\* successive triggerPad calls never go backwards, also across the loop
\* boundary: a trigger's scheduledAt is not before the scheduled time of any
\* earlier trigger whose callback is still pending.
C14_ScheduledInOrder ==
  Triggered =>
    \A cb \in BagToSet(once) :
      cb.at <= toTicks(last.scheduledAt, transportBpm)

\* C17: init() builds the voice bank and the signal chain at most once per
\* engine, also when it is called again while an earlier call still waits
\* for the audio output: an init() call that goes on to build the nodes
\* overwrites no node that was built before and is not yet disposed.
C17_BuildsOnce ==
  [][(initAwait' < initAwait /\ last'.error = "") =>
       \A n \in Nodes : node[n] # "live"]_vars

\* C15: under every interleaving of the component's clip actions, at most
\* one clip schedule is live, and every live schedule is the one held in
\* activeClip, so that it can still be stopped.
C15_OneLiveClip ==
  \A h \in 1..Len(parts) : parts[h].started => h = activeClip

\* C16: whenever audioReady is true the engine is Ready, so that a pad tap
\* that passed ensureAudio() never fails with EngineNotReady.
C16_AudioReadyMeansReady ==
  /\ audioReady => initialized
  /\ (audioReady /\ last.op = "triggerPad") => last.error # EngineNotReady

\* C18: the component calls setBpm, setFilterFrequency and setReverbWet only
\* on a Ready engine, so that none of them fails with EngineNotReady, and
\* once init() has run the Transport's tempo is the component's bpm.
C18_SettersOnReadyEngine ==
  /\ last.op \in {"setBpm", "setFilterFrequency", "setReverbWet"} =>
       last.error # EngineNotReady
  /\ (initialized /\ Idle /\ ramps.bpm = 0) => transportBpm = appBpm

====
